---- MODULE Spec2Model ----
(***************************************************************************)
(* State-machine model of yesg.main.YahooESGClient: the credential cache   *)
(* (_cookie, _crumb, session) and the request executor (_request) with its *)
(* one-time reauth and its bounded backoff loop.                           *)
(*                                                                         *)
(* Each caller (thread) runs one operation at a time as a small-step       *)
(* program: frame[t].pc is the position in the code, frame[t].stk the      *)
(* return addresses of the nested calls (_request -> _do -> _ensure_crumb  *)
(* -> _default_headers -> _ensure_cookie).  Every HTTP request is one step *)
(* whose response is chosen by the upstream.                               *)
(*                                                                         *)
(* Values: a cookie is the number of the upstream event that issued it     *)
(* (0 = None); a crumb is [n |-> issuing event, ck |-> the cookie it was   *)
(* issued to] (n = 0 stands for both None and the empty string, which the  *)
(* code tests alike with "if self._crumb").  The numbers only name the    *)
(* upstream's values: they are compared for equality and for which was     *)
(* issued later, so between operations the ones still held are renumbered  *)
(* 1, 2, ... in their order of issue.  Times are in tenths of a second,    *)
(* jitter fractions in percent.  Transport exceptions other than the one a *)
(* closed session raises (timeouts, DNS) are not modelled, and of all      *)
(* responses only the quote endpoint's is taken to set the A1 cookie.      *)
(*                                                                         *)
(* Three specifications share the variables: Spec (one caller running      *)
(* _request and the acquisition methods in sequence), PublicSpec (the      *)
(* public operations get_esg_short, get_esg_full and get_historic_esg on   *)
(* JSON documents) and ConcSpec (two threads on the shared client with     *)
(* freely interleaved steps).  FairSpec is Spec with weak fairness.        *)
(***************************************************************************)
EXTENDS Integers, Sequences, FiniteSets, TLC

\* ---------------------------------------------------------------- bounds
MaxRetriesBound == 2
MaxOps == 2
JitterSteps == 2

\* ------------------------------------------------- dataclass defaults
DefaultBackoffBase == 8
DefaultBackoffCap == 80
DefaultJitterFrac == 25

Threads == {"T1", "T2"}

\* Backoff tunings the client is constructed with: the defaults, and a tight
\* one where the cap is hit at attempt 1 and the jitter exceeds the base.
DefaultTuning ==
    [backoff_base |-> DefaultBackoffBase, backoff_cap |-> DefaultBackoffCap,
     jitter_frac |-> DefaultJitterFrac]
TightTuning == [backoff_base |-> 30, backoff_cap |-> 50, jitter_frac |-> 150]

\* the constructor arguments tried: every max_retries below the bound with
\* the default tuning, and the bound itself with the tight tuning
Configs ==
    { [max_retries |-> r, tuning |-> DefaultTuning] : r \in 0..(MaxRetriesBound - 1) }
    \cup { [max_retries |-> MaxRetriesBound, tuning |-> TightTuning] }

\* the argument lists _request is called with: (need_crumb, "crumb" among the
\* caller's params, headers); the public operations use the first
RequestArgs ==
    { <<TRUE, FALSE, "default">>, <<FALSE, FALSE, "default">>,
      <<TRUE, TRUE, "default">>, <<FALSE, FALSE, "caller">> }

\* ------------------------------------------------------------- values
NoCrumb == [n |-> 0, ck |-> 0]
CallerCrumb == [n |-> -1, ck |-> -1]
CallerHeaders == [Cookie |-> -1]
NoParam == [has |-> FALSE, val |-> NoCrumb]

Truthy(x) == x # 0

\* ------------------------------------------------- upstream responses
BodyEmpty == << >>
BodyInvalidCrumb == <<"I","n","v","a","l","i","d"," ","C","r","u","m","b">>
BodyUnauthorized == <<"U","n","a","u","t","h","o","r","i","z","e","d">>
BodyBadRequest == <<"B","a","d"," ","R","e","q","u","e","s","t">>

Resp(s, b) == [status_code |-> s, text |-> b]

\* what an endpoint may answer: a success, a redirect-class status, the three
\* kinds of 400, the two auth statuses, a rate limit, a server error
Responses ==
    { Resp(200, BodyEmpty), Resp(304, BodyEmpty),
      Resp(400, BodyBadRequest), Resp(400, BodyInvalidCrumb),
      Resp(400, BodyUnauthorized), Resp(401, BodyEmpty), Resp(403, BodyEmpty),
      Resp(429, BodyEmpty), Resp(500, BodyUnauthorized) }

Statuses == {r.status_code : r \in Responses}

NoResp == [status_code |-> 0, text |-> BodyEmpty]

\* ------------------------------------------------------ str.lower, "in"
UpperCase ==
    <<"A","B","C","D","E","F","G","H","I","J","K","L","M",
      "N","O","P","Q","R","S","T","U","V","W","X","Y","Z">>
LowerCase ==
    <<"a","b","c","d","e","f","g","h","i","j","k","l","m",
      "n","o","p","q","r","s","t","u","v","w","x","y","z">>

LowerChar(c) ==
    IF \E i \in 1..Len(UpperCase) : UpperCase[i] = c
    THEN LowerCase[CHOOSE i \in 1..Len(UpperCase) : UpperCase[i] = c]
    ELSE c

\* a lower-casing that keeps the case of the body
Lower_Identity(s) == s

Lower(s) == [i \in 1..Len(s) |-> LowerChar(s[i])]

Contains(s, m) ==
    \E i \in 1..(Len(s) - Len(m) + 1) : SubSeq(s, i, i + Len(m) - 1) = m

MarkCrumb == <<"c","r","u","m","b">>
MarkInvalid == <<"i","n","v","a","l","i","d">>
MarkUnauthoriz == <<"u","n","a","u","t","h","o","r","i","z">>

\* _request._crumb_invalid
CrumbInvalid(r) ==
    LET body == Lower(r.text)
    IN  (Contains(body, MarkCrumb) /\ Contains(body, MarkInvalid))
        \/ Contains(body, MarkUnauthoriz)

\* an auth check that misses 403
AuthFailure_Only401(r) ==
    r.status_code = 401 \/ (r.status_code = 400 /\ CrumbInvalid(r))

\* the condition of the one-time reauth
AuthFailure(r) ==
    r.status_code \in {401, 403} \/ (r.status_code = 400 /\ CrumbInvalid(r))

\* the status test of the backoff loop
Transient(r) ==
    r.status_code = 429 \/ (500 <= r.status_code /\ r.status_code < 600)

\* Response.ok of the HTTP library: raise_for_status raises unless it holds
Ok(r) == 200 <= r.status_code /\ r.status_code < 400

\* ------------------------------------------------------------- backoff
Min(a, b) == IF a <= b THEN a ELSE b
Max(a, b) == IF a >= b THEN a ELSE b

\* delays are kept as multiples of 1 / DelayScale of a tenth of a second, so
\* that base * jitter_frac and the jitter draws stay whole numbers
DelayScale == 100 * JitterSteps

\* an exponential delay without the cap
BackoffBase_NoCap(tun, attempt) == tun.backoff_base * (2 ^ attempt)

\* min(self.backoff_cap, self.backoff_base * (2 ** attempt))
BackoffBase(tun, attempt) ==
    Min(tun.backoff_cap, tun.backoff_base * (2 ^ attempt))

\* random.uniform(-jitter, jitter), drawn at k / JitterSteps of its range
JitterDraws == (0 - JitterSteps)..JitterSteps

\* max(0.0, base + random.uniform(-jitter, jitter)), times DelayScale
BackoffDelay(tun, attempt, k) ==
    LET base == BackoffBase(tun, attempt)
    IN  Max(0, base * DelayScale + base * tun.jitter_frac * k)

\* ---------------------------------------------------------- JSON values
\* a parsed JSON document, as json.loads / Response.json build it: None, a
\* str, a number, a list or a dict, each tagged with its Python type
JNull == [t |-> "null"]
JStr(s) == [t |-> "str", s |-> s]
JNum(n) == [t |-> "num", n |-> n]
JList(items) == [t |-> "list", items |-> items]
JObj(fields) == [t |-> "obj", fields |-> fields]
JEmptyObj == JObj(<< >>)

IsDict(x) == x.t = "obj"
HasKey(x, k) == k \in DOMAIN x.fields

\* the result of an expression: a value, or the exception it raised
Val(v) == [ok |-> TRUE, v |-> v]
Exc(e) == [ok |-> FALSE, exc |-> e]

\* x[key] with a str key
Item(x, key) ==
    CASE x.t = "obj" -> IF HasKey(x, key) THEN Val(x.fields[key]) ELSE Exc("KeyError")
      [] OTHER -> Exc("TypeError")

\* x[i] with an int index
At(x, i) ==
    CASE x.t = "list" -> IF i + 1 \in 1..Len(x.items) THEN Val(x.items[i + 1])
                         ELSE Exc("IndexError")
      [] x.t = "obj" -> Exc("KeyError")
      [] OTHER -> Exc("TypeError")

\* x.get(key, default)
Get(x, key, default) ==
    IF IsDict(x)
    THEN Val(IF HasKey(x, key) THEN x.fields[key] ELSE default)
    ELSE Exc("AttributeError")

\* an expression continued on the value of another, an exception passing through
Then(r, F(_)) == IF r.ok THEN F(r.v) ELSE r

\* what an operation has not built yet
NoRow == << >>

\* --------------------------------------------------------------- state
VARIABLES
    cookie,       \* self._cookie
    crumb,        \* self._crumb
    session,      \* self.session: [id, closed, jar]; jar = the A1 cookie it holds
    max_retries,  \* self.max_retries
    tuning,       \* self.backoff_base, self.backoff_cap, self.jitter_frac
    issued,       \* upstream: number of values and sessions issued so far
    frame,        \* per caller: the running operation's position and locals
    trace,        \* per caller: what the running operation has done (history)
    total         \* what the client has done since construction (history)

vars == <<cookie, crumb, session, max_retries, tuning, issued, frame, trace, total>>

NoOutcome == [kind |-> "none", status |-> 0]

IdleFrame ==
    [pc |-> "idle", stk |-> << >>,
     op |-> "none", need_crumb |-> FALSE, params |-> NoParam,
     hdr_arg |-> "default", reset_session |-> TRUE,
     headers |-> [Cookie |-> 0], ret |-> 0, ret_crumb |-> NoCrumb,
     override |-> NoParam, p |-> NoParam,
     resp |-> NoResp, attempt |-> 0, delay |-> 0, outcome |-> NoOutcome,
     js |-> JNull, data |-> JNull, row |-> NoRow]

\* history of one operation: data = the data requests sent, auth = the requests
\* to the cookie and crumb endpoints, sleeps = the backoff sleeps (each with the
\* numbers of requests made and the credentials held when it began), reauth =
\* the _reauth invocations, pre_* = the cache when the operation started
NoReauth == [state |-> "none", mark |-> 0, count |-> 0, at |-> 0]

EmptyTrace ==
    [data |-> << >>, auth |-> << >>, sleeps |-> << >>,
     reauth |-> NoReauth, pre_cookie |-> 0, pre_crumb |-> NoCrumb]

NewSession(n) == [id |-> n, closed |-> FALSE, jar |-> 0]

\* __post_init__, with the dataclass fields drawn from the bounded tunings
Init ==
    /\ cookie = 0
    /\ crumb = NoCrumb
    /\ session = NewSession(1)
    /\ \E c \in Configs : max_retries = c.max_retries /\ tuning = c.tuning
    /\ issued = 1
    /\ frame = [t \in Threads |-> IdleFrame]
    /\ trace = [t \in Threads |-> EmptyTrace]
    /\ total = [ops |-> 0, cookie_reqs |-> 0, crumb_reqs |-> 0,
                clean |-> TRUE, calls |-> 0, cookie_calls |-> 0, crumb_calls |-> 0,
                overlap |-> FALSE]

\* ------------------------------------------------------- control flow
Merge(f, g) == [k \in DOMAIN f |-> IF k \in DOMAIN g THEN g[k] ELSE f[k]]

\* a call: jump to the callee's entry, remember where to continue
CallTo(f, entry, cont) == Merge(f, [pc |-> entry, stk |-> <<cont>> \o f.stk])

\* a return: continue in the caller; the outermost return ends the operation
Return(f) ==
    IF f.stk = << >>
    THEN Merge(f, [pc |-> "done",
                   outcome |-> [kind |-> "returned", status |-> f.resp.status_code]])
    ELSE Merge(f, [pc |-> Head(f.stk), stk |-> Tail(f.stk)])

\* an exception: nothing in these call chains catches it, the operation ends
Raise(f, exc, status) ==
    Merge(f, [pc |-> "done", stk |-> << >>,
              outcome |-> [kind |-> exc, status |-> status]])

\* history: an exception that leaves a running _reauth
Unwound(tr) ==
    IF tr.reauth.state = "running"
    THEN [tr EXCEPT !.reauth.state = "raised"]
    ELSE tr

CanStart(t) == frame[t].pc \in {"idle", "done"} /\ total.ops < MaxOps

\* another caller is inside an operation on the same client
Busy(t) == \E u \in Threads \ {t} : frame[u].pc \notin {"idle", "done"}

\* history: an operation begins, possibly while another one is running
Begun(t, tot) == [tot EXCEPT !.ops = @ + 1, !.overlap = @ \/ Busy(t)]

\* the names of the upstream values the client holds, and their renumbering in
\* order of issue (only while no other caller holds names of its own)
Held == {cookie, crumb.n, crumb.ck, session.id, session.jar} \ {0}

Rank(t, x) ==
    IF x = 0 \/ \E u \in Threads \ {t} : frame[u].pc # "idle" THEN x
    ELSE Cardinality({y \in Held : y <= x})

\* an operation starts: nothing of the client changes but the names
Start(t, f) ==
    /\ frame' = [frame EXCEPT ![t] = f]
    /\ cookie' = Rank(t, cookie)
    /\ crumb' = [n |-> Rank(t, crumb.n), ck |-> Rank(t, crumb.ck)]
    /\ session' = [id |-> Rank(t, session.id), closed |-> session.closed,
                   jar |-> Rank(t, session.jar)]
    /\ issued' = Rank(t, issued)
    /\ trace' = [trace EXCEPT ![t] =
                   Merge(EmptyTrace, [pre_cookie |-> cookie', pre_crumb |-> crumb'])]
    /\ UNCHANGED <<max_retries, tuning>>

\* history: an auth failure or an acquisition failure ends the clean history,
\* whose counts are kept no further
Dirty(tot) ==
    [ops |-> tot.ops, cookie_reqs |-> 0, crumb_reqs |-> 0, clean |-> FALSE,
     calls |-> 0, cookie_calls |-> 0, crumb_calls |-> 0, overlap |-> tot.overlap]

Count(tot, field) == IF tot.clean THEN [tot EXCEPT ![field] = @ + 1] ELSE tot

\* --------------------------------------------------------- operations
\* a caller invokes _request (the public operations do so with need_crumb
\* true, their own parameters and headers=self._default_headers())
CallRequest(t) ==
    /\ CanStart(t)
    /\ \E a \in RequestArgs :
          Start(t, Merge(IdleFrame,
                         [pc |-> "rq", op |-> "request", need_crumb |-> a[1],
                          params |-> IF a[2] THEN [has |-> TRUE, val |-> CallerCrumb]
                                     ELSE NoParam,
                          hdr_arg |-> a[3]]))
    /\ total' = Begun(t, total)

\* a caller invokes _reauth, _ensure_cookie or _ensure_crumb directly
CallAuth(t) ==
    /\ CanStart(t)
    /\ \E o \in {"reauth", "ensure_cookie", "ensure_crumb"}, rs \in BOOLEAN :
          /\ o # "reauth" => rs
          /\ Start(t, Merge(IdleFrame,
                            [pc |-> CASE o = "reauth" -> "ra"
                                      [] o = "ensure_cookie" -> "ec"
                                      [] OTHER -> "ecr",
                             op |-> o, reset_session |-> rs]))
    /\ total' = Begun(t, Dirty(total))

\* ------------------------------------------------------ _ensure_cookie
\* an _ensure_cookie that never uses its cache
CookieCached_Never(c) == FALSE

\* "if self._cookie:"
CookieCached(c) == Truthy(c)

\* "if self._cookie: return self._cookie"
EnsureCookie(t) ==
    LET f == frame[t] IN
    /\ f.pc = "ec"
    /\ frame' = [frame EXCEPT ![t] =
                   IF CookieCached(cookie)
                   THEN Return(Merge(f, [ret |-> cookie]))
                   ELSE Merge(f, [pc |-> "ec_get"])]
    /\ UNCHANGED <<cookie, crumb, session, max_retries, tuning, issued, trace, total>>

\* r.cookies.get("A1") or self.session.cookies.get("A1")
A1Of(set, fresh, jar) == IF set THEN fresh ELSE jar

\* the GET of the quote endpoint; the response sets a fresh A1 cookie or none
CookieRequest(t) ==
    LET f == frame[t] IN
    /\ f.pc = "ec_get"
    /\ IF session.closed
       THEN /\ frame' = [frame EXCEPT ![t] = Raise(f, "SessionClosed", 0)]
            /\ trace' = [trace EXCEPT ![t] = Unwound(@)]
            /\ total' = Dirty(total)
            /\ UNCHANGED <<cookie, session, issued>>
       ELSE \E set \in BOOLEAN :
            LET a1 == A1Of(set, issued + 1, session.jar)
                ev == [ep |-> "cookie", hdr |-> 0, cached |-> cookie, ok |-> Truthy(a1),
                       epoch |-> trace[t].reauth.count]
            IN  /\ issued' = IF set THEN issued + 1 ELSE issued
                /\ session' = [session EXCEPT !.jar = a1]
                /\ total' = IF Truthy(a1) THEN Count(total, "cookie_reqs")
                            ELSE Dirty(total)
                /\ IF Truthy(a1)
                   THEN /\ cookie' = a1
                        /\ frame' = [frame EXCEPT ![t] = Return(Merge(f, [ret |-> a1]))]
                        /\ trace' = [trace EXCEPT ![t].auth = Append(@, ev)]
                   ELSE /\ cookie' = cookie
                        /\ frame' = [frame EXCEPT ![t] = Raise(f, "RuntimeError", 0)]
                        /\ trace' = [trace EXCEPT ![t] =
                                       Unwound([@ EXCEPT !.auth = Append(@, ev)])]
    /\ UNCHANGED <<crumb, max_retries, tuning>>

\* ------------------------------------------------------- _ensure_crumb
\* "if self._crumb: return self._crumb", else headers=self._default_headers()
EnsureCrumb(t) ==
    LET f == frame[t] IN
    /\ f.pc = "ecr"
    /\ frame' = [frame EXCEPT ![t] =
                   IF Truthy(crumb.n)
                   THEN Return(Merge(f, [ret_crumb |-> crumb]))
                   ELSE CallTo(f, "ec", "ecr_get")]
    /\ UNCHANGED <<cookie, crumb, session, max_retries, tuning, issued, trace, total>>

\* a getcrumb request sent without the session cookie
CrumbHeaders_NoCookie(ck) == [Cookie |-> 0]

\* the Cookie header of the getcrumb request: _default_headers()'s
CrumbHeaders(ck) == [Cookie |-> ck]

\* the GET of the getcrumb endpoint, raise_for_status, strip, the empty test
CrumbRequest(t) ==
    LET f == frame[t]
        h == CrumbHeaders(f.ret)
    IN
    /\ f.pc = "ecr_get"
    /\ IF session.closed
       THEN /\ frame' = [frame EXCEPT ![t] = Raise(f, "SessionClosed", 0)]
            /\ trace' = [trace EXCEPT ![t] = Unwound(@)]
            /\ total' = Dirty(total)
            /\ UNCHANGED <<crumb, issued>>
       ELSE \E s \in Statuses, text \in BOOLEAN :
            LET r == Resp(s, BodyEmpty)
                got == Ok(r) /\ text
                new == IF text THEN [n |-> issued + 1, ck |-> h.Cookie] ELSE NoCrumb
                ev == [ep |-> "crumb", hdr |-> h.Cookie, cached |-> cookie, ok |-> got,
                       epoch |-> trace[t].reauth.count]
            IN  /\ issued' = IF got THEN issued + 1 ELSE issued
                /\ crumb' = IF Ok(r) THEN new ELSE crumb
                /\ total' = IF got THEN Count(total, "crumb_reqs") ELSE Dirty(total)
                /\ IF got
                   THEN /\ frame' = [frame EXCEPT ![t] =
                                       Return(Merge(f, [ret_crumb |-> new]))]
                        /\ trace' = [trace EXCEPT ![t].auth = Append(@, ev)]
                   ELSE /\ frame' = [frame EXCEPT ![t] =
                                       IF Ok(r) THEN Raise(f, "RuntimeError", 0)
                                       ELSE Raise(f, "HTTPError", s)]
                        /\ trace' = [trace EXCEPT ![t] =
                                       Unwound([@ EXCEPT !.auth = Append(@, ev)])]
    /\ UNCHANGED <<cookie, session, max_retries, tuning>>

\* ------------------------------------------------------------- _reauth
\* a _reauth that forgets to clear the crumb
ClearedCrumb_Kept(c) == c

\* what "self._crumb = None" leaves in the cache
ClearedCrumb(c) == NoCrumb

\* session.close(), the new Session when reset_session, both caches cleared,
\* then self._ensure_cookie()
Reauth(t) ==
    LET f == frame[t] IN
    /\ f.pc = "ra"
    /\ session' = IF f.reset_session THEN NewSession(issued + 1)
                  ELSE [session EXCEPT !.closed = TRUE]
    /\ issued' = IF f.reset_session THEN issued + 1 ELSE issued
    /\ cookie' = 0
    /\ crumb' = ClearedCrumb(crumb)
    /\ frame' = [frame EXCEPT ![t] = CallTo(f, "ec", "ra_crumb")]
    /\ trace' = [trace EXCEPT ![t].reauth =
                   [state |-> "running", mark |-> issued,
                    count |-> @.count + 1, at |-> Len(trace[t].data)]]
    /\ UNCHANGED <<max_retries, tuning, total>>

\* self._ensure_crumb()
ReauthCrumb(t) ==
    LET f == frame[t] IN
    /\ f.pc = "ra_crumb"
    /\ frame' = [frame EXCEPT ![t] = CallTo(f, "ecr", "ra_end")]
    /\ UNCHANGED <<cookie, crumb, session, max_retries, tuning, issued, trace, total>>

\* _reauth returns
ReauthReturn(t) ==
    LET f == frame[t] IN
    /\ f.pc = "ra_end"
    /\ frame' = [frame EXCEPT ![t] = Return(f)]
    /\ trace' = [trace EXCEPT ![t].reauth.state = "returned"]
    /\ UNCHANGED <<cookie, crumb, session, max_retries, tuning, issued, total>>

\* ------------------------------------------------------------ _request
\* "if headers is None: headers = self._default_headers()"; the public
\* operations evaluate the same call in their argument list
RequestHeaders(t) ==
    LET f == frame[t] IN
    /\ f.pc = "rq"
    /\ frame' = [frame EXCEPT ![t] =
                   IF f.hdr_arg = "default"
                   THEN CallTo(f, "ec", "rq_first")
                   ELSE Merge(f, [headers |-> CallerHeaders, ret |-> CallerHeaders.Cookie,
                                  pc |-> "rq_first"])]
    /\ UNCHANGED <<cookie, crumb, session, max_retries, tuning, issued, trace, total>>

\* the headers are in place ({..., "Cookie": cookie} from _default_headers);
\* "resp = _do()"
FirstTry(t) ==
    LET f == frame[t] IN
    /\ f.pc = "rq_first"
    /\ frame' = [frame EXCEPT ![t] =
                   CallTo(Merge(f, [headers |-> [Cookie |-> f.ret],
                                    override |-> NoParam]),
                          "do", "rq_classify")]
    /\ UNCHANGED <<cookie, crumb, session, max_retries, tuning, issued, trace, total>>

\* p = dict(params or {}); p.update(params_override)
Updated(params, override) == IF override.has THEN override ELSE params

\* _do: the parameters, then self._ensure_crumb() if need_crumb
Do(t) ==
    LET f == frame[t]
        g == Merge(f, [p |-> Updated(f.params, f.override)])
    IN
    /\ f.pc = "do"
    /\ frame' = [frame EXCEPT ![t] =
                   IF f.need_crumb THEN CallTo(g, "ecr", "do_set")
                   ELSE Merge(g, [pc |-> "do_send"])]
    /\ UNCHANGED <<cookie, crumb, session, max_retries, tuning, issued, trace, total>>

\* a _do that leaves the crumb out
SetDefault_Skip(p, c) == p

\* p.setdefault("crumb", self._crumb)
SetDefault(p, c) == IF p.has THEN p ELSE [has |-> TRUE, val |-> c]

DoSetDefault(t) ==
    LET f == frame[t] IN
    /\ f.pc = "do_set"
    /\ frame' = [frame EXCEPT ![t] =
                   Merge(f, [p |-> SetDefault(f.p, crumb), pc |-> "do_send"])]
    /\ UNCHANGED <<cookie, crumb, session, max_retries, tuning, issued, trace, total>>

\* self.session.request(method, url, params=p, headers=headers, ...)
DoSend(t) ==
    LET f == frame[t] IN
    /\ f.pc = "do_send"
    /\ IF session.closed
       THEN /\ frame' = [frame EXCEPT ![t] = Raise(f, "SessionClosed", 0)]
            /\ trace' = [trace EXCEPT ![t] = Unwound(@)]
            /\ total' = Dirty(total)
       ELSE \E r \in Responses :
            LET ev == [ck |-> f.headers.Cookie, cr |-> f.p, st |-> r.status_code]
            IN  /\ frame' = [frame EXCEPT ![t] = Return(Merge(f, [resp |-> r]))]
                /\ trace' = [trace EXCEPT ![t].data = Append(@, ev)]
                /\ total' = total
    /\ UNCHANGED <<cookie, crumb, session, max_retries, tuning, issued>>

\* a reissued request that went back to the auth check
AfterReissue_Reclassify == "rq_classify"

\* where _request continues after the reissued request: the backoff loop
AfterReissue == "rq_loop0"

\* "if resp.status_code in (401, 403) or (... == 400 and _crumb_invalid(resp)):
\*      self._reauth(reset_session=True)"
Classify(t) ==
    LET f == frame[t] IN
    /\ f.pc = "rq_classify"
    /\ IF AuthFailure(f.resp)
       THEN /\ frame' = [frame EXCEPT ![t] =
                           CallTo(Merge(f, [reset_session |-> TRUE]), "ra", "rq_rehdr")]
            /\ total' = Dirty(total)
       ELSE /\ frame' = [frame EXCEPT ![t] = Merge(f, [pc |-> "rq_loop0"])]
            /\ total' = total
    /\ UNCHANGED <<cookie, crumb, session, max_retries, tuning, issued, trace>>

\* "headers = self._default_headers()" after the reauth
Rebuild(t) ==
    LET f == frame[t] IN
    /\ f.pc = "rq_rehdr"
    /\ frame' = [frame EXCEPT ![t] = CallTo(f, "ec", "rq_reissue")]
    /\ UNCHANGED <<cookie, crumb, session, max_retries, tuning, issued, trace, total>>

\* a reissue that keeps the headers built before the reauth
RebuiltHeaders_Old(old, ck) == old

\* "headers = self._default_headers()": the rebinding _do then reads
RebuiltHeaders(old, ck) == [Cookie |-> ck]

\* {"crumb": self._crumb} if need_crumb else None
CrumbOverride(nc, c) == IF nc THEN [has |-> TRUE, val |-> c] ELSE NoParam

\* "resp = _do({"crumb": self._crumb} if need_crumb else None)"
Reissue(t) ==
    LET f == frame[t] IN
    /\ f.pc = "rq_reissue"
    /\ frame' = [frame EXCEPT ![t] =
                   CallTo(Merge(f, [headers |-> RebuiltHeaders(f.headers, f.ret),
                                    override |-> CrumbOverride(f.need_crumb, crumb)]),
                          "do", AfterReissue)]
    /\ UNCHANGED <<cookie, crumb, session, max_retries, tuning, issued, trace, total>>

\* a loop that gives up one retry early
LoopContinues_GivesUpEarly(r, attempt, maxr) == Transient(r) /\ attempt < maxr - 1

\* a loop bound that is off by one
LoopContinues_OneMore(r, attempt, maxr) == Transient(r) /\ attempt <= maxr

\* the while condition of the backoff loop
LoopContinues(r, attempt, maxr) == Transient(r) /\ attempt < maxr

\* the response whose status decides the outcome: the last one received
FinalResponse(f) == f.resp

\* "resp.raise_for_status(); return resp"
RaiseForStatus(f) ==
    LET r == FinalResponse(f) IN
    IF Ok(r) THEN Return(Merge(f, [resp |-> r]))
    ELSE Raise(f, "HttpError", r.status_code)

\* the loop head: into the body, or past the loop to raise_for_status
LoopHead(f) ==
    IF LoopContinues(f.resp, f.attempt, max_retries)
    THEN Merge(f, [pc |-> "rq_sleep"])
    ELSE RaiseForStatus(f)

\* history: a call that got to its raise_for_status is counted
Settle(f, g, tot) ==
    IF g.pc # "done" THEN tot
    ELSE LET a == Count(tot, "calls")
             b == IF f.need_crumb \/ f.hdr_arg = "default"
                  THEN Count(a, "cookie_calls") ELSE a
         IN  IF f.need_crumb THEN Count(b, "crumb_calls") ELSE b

\* "attempt = 0", then the loop head for the first time
LoopInit(t) ==
    LET f == frame[t]
        g == LoopHead(Merge(f, [attempt |-> 0]))
    IN
    /\ f.pc = "rq_loop0"
    /\ frame' = [frame EXCEPT ![t] = g]
    /\ total' = Settle(f, g, total)
    /\ UNCHANGED <<cookie, crumb, session, max_retries, tuning, issued, trace>>

\* the loop head after a retry
LoopTest(t) ==
    LET f == frame[t]
        g == LoopHead(f)
    IN
    /\ f.pc = "rq_loop"
    /\ frame' = [frame EXCEPT ![t] = g]
    /\ total' = Settle(f, g, total)
    /\ UNCHANGED <<cookie, crumb, session, max_retries, tuning, issued, trace>>

\* the attempt index the loop body hands to _sleep_backoff
SleepIndex(attempt) == attempt

\* "self._sleep_backoff(attempt)": the delay is drawn and slept
SleepBackoff(t) ==
    LET f == frame[t]
        i == SleepIndex(f.attempt)
    IN
    /\ f.pc = "rq_sleep"
    /\ \E k \in JitterDraws :
          /\ frame' = [frame EXCEPT ![t] =
                         Merge(f, [delay |-> BackoffDelay(tuning, i, k),
                                   pc |-> "rq_retry"])]
          /\ trace' = [trace EXCEPT ![t].sleeps =
                         Append(@, [attempt |-> i, base |-> BackoffBase(tuning, i),
                                    sent |-> Len(trace[t].data),
                                    auth |-> Len(trace[t].auth),
                                    held |-> <<cookie, crumb, session>>])]
    /\ UNCHANGED <<cookie, crumb, session, max_retries, tuning, issued, total>>

\* a loop body that forgets to count the attempt
NextAttempt_Stuck(attempt) == attempt

\* "attempt += 1"
NextAttempt(attempt) == attempt + 1

\* "attempt += 1; resp = _do()"
Retry(t) ==
    LET f == frame[t] IN
    /\ f.pc = "rq_retry"
    /\ frame' = [frame EXCEPT ![t] =
                   CallTo(Merge(f, [attempt |-> NextAttempt(f.attempt), delay |-> 0,
                                    override |-> NoParam]),
                          "do", "rq_loop")]
    /\ UNCHANGED <<cookie, crumb, session, max_retries, tuning, issued, trace, total>>

\* ------------------------------------------------------ specification
Step(t) ==
    \/ CallRequest(t)
    \/ CallAuth(t)
    \/ EnsureCookie(t)
    \/ CookieRequest(t)
    \/ EnsureCrumb(t)
    \/ CrumbRequest(t)
    \/ Reauth(t)
    \/ ReauthCrumb(t)
    \/ ReauthReturn(t)
    \/ RequestHeaders(t)
    \/ FirstTry(t)
    \/ Do(t)
    \/ DoSetDefault(t)
    \/ DoSend(t)
    \/ Classify(t)
    \/ Rebuild(t)
    \/ Reissue(t)
    \/ LoopInit(t)
    \/ LoopTest(t)
    \/ SleepBackoff(t)
    \/ Retry(t)

\* single-threaded use: one caller, one operation at a time
Callers == {"T1"}

Next == \E t \in Callers : Step(t)

Spec == Init /\ [][Next]_vars

\* with the scheduling of a running Python thread: it takes its next step
FairSpec == Spec /\ WF_vars(Next)

\* ------------------------------------------- the client shared by threads
\* the module-level client with max_retries = 1, used by two threads
ConcInit == Init /\ max_retries = 1

\* what the threads and the upstream do in the shared runs: each thread calls
\* _request as the public operations do; the cookie and crumb endpoints answer
\* normally; T1's data requests are answered 200, T2's 200, 401 or 429; the
\* jitter drawn is zero
ConcInputs(t) ==
    /\ frame[t].op \in {"none", "request"}
    /\ frame[t].op = "request" =>
          frame[t].need_crumb /\ frame[t].hdr_arg = "default" /\ ~frame[t].params.has
    /\ frame[t].resp.status_code \in
          (IF t = "T1" THEN {0, 200} ELSE {0, 200, 401, 429})
    /\ \A i \in 1..Len(trace[t].auth) : trace[t].auth[i].ok
    /\ frame[t].delay \in {0, BackoffDelay(tuning, 0, 0)}

\* no lock guards the client: the steps of the two threads' operations
\* interleave freely; each thread runs one operation
ConcNext ==
    \E t \in Threads : frame[t].pc # "done" /\ Step(t) /\ ConcInputs(t)'

ConcSpec == ConcInit /\ [][ConcNext]_vars

\* ---------------------------------------------------- get_historic_esg
\* a symbolSeries of n rows with the given columns
SeriesOf(n, cols) == JObj([c \in cols |-> JList([i \in 1..n |-> JNum(i)])])

SeriesColumns ==
    {"timestamp", "esgScore", "environmentScore", "socialScore", "governanceScore"}

\* {"esgChart": {"result": [{"symbolSeries": series}]}}
ChartOf(series) ==
    JObj("esgChart" :> JObj("result" :> JList(<<JObj("symbolSeries" :> series)>>)))

\* the esgChart documents the upstream may answer with
HistoryDocs ==
    { JEmptyObj,
      JObj("esgChart" :> JNull),
      JObj("esgChart" :> JEmptyObj),
      JObj("esgChart" :> JObj("result" :> JNull)),
      JObj("esgChart" :> JObj("result" :> JList(<< >>))),
      JObj("esgChart" :> JObj("result" :> JList(<<JEmptyObj>>))),
      ChartOf(JNull), ChartOf(JList(<< >>)), ChartOf(JEmptyObj),
      ChartOf(SeriesOf(0, SeriesColumns)),
      ChartOf(SeriesOf(1, SeriesColumns)),
      ChartOf(SeriesOf(2, SeriesColumns)),
      ChartOf(SeriesOf(2, {"timestamp"})),
      ChartOf(SeriesOf(2, SeriesColumns \ {"timestamp"})) }

\* the public operation is entered and its _request has returned the response
\* whose body parses to the document ("js = r.json()")
CallHistoric(t) ==
    /\ frame[t].pc = "idle"
    /\ \E doc \in HistoryDocs :
          frame' = [frame EXCEPT ![t] =
                      Merge(IdleFrame, [pc |-> "hist_series", op |-> "get_historic_esg",
                                        need_crumb |-> TRUE,
                                        resp |-> Resp(200, BodyEmpty), js |-> doc])]
    /\ UNCHANGED <<cookie, crumb, session, max_retries, tuning, issued, trace, total>>

\* js["esgChart"]["result"][0]["symbolSeries"]
SymbolSeries(js) ==
    Then(Then(Then(Item(js, "esgChart"), LAMBDA a : Item(a, "result")),
              LAMBDA b : At(b, 0)),
         LAMBDA c : Item(c, "symbolSeries"))

\* "try: series = ... except Exception: raise RuntimeError(...)"
HistoricSeries(t) ==
    LET f == frame[t]
        r == SymbolSeries(f.js)
    IN
    /\ f.pc = "hist_series"
    /\ frame' = [frame EXCEPT ![t] =
                   IF r.ok THEN Merge(f, [data |-> r.v, pc |-> "hist_frame"])
                   ELSE Raise(f, "RuntimeError", 0)]
    /\ UNCHANGED <<cookie, crumb, session, max_retries, tuning, issued, trace, total>>

\* pd.DataFrame(series): the columns and the number of rows, for None, a list
\* of dicts and a dict of equally long lists
FrameColumns(series) ==
    CASE series.t = "obj" -> DOMAIN series.fields
      [] series.t = "list" ->
            UNION {DOMAIN series.items[i].fields : i \in 1..Len(series.items)}
      [] OTHER -> {}

FrameRows(series) ==
    CASE series.t = "obj" ->
            IF DOMAIN series.fields = {} THEN 0
            ELSE Len(series.fields[CHOOSE c \in DOMAIN series.fields : TRUE].items)
      [] series.t = "list" -> Len(series.items)
      [] OTHER -> 0

\* df.rename(columns={...})
Renamed(c) ==
    CASE c = "esgScore" -> "Total-Score"
      [] c = "environmentScore" -> "E-Score"
      [] c = "socialScore" -> "S-Score"
      [] c = "governanceScore" -> "G-Score"
      [] OTHER -> c

HistoricColumns == <<"Total-Score", "E-Score", "S-Score", "G-Score">>

\* df["Date"] = pd.to_datetime(df["timestamp"], unit="s"); the rename; the
\* selection of the five columns; set_index("Date")
HistoricTable(series) ==
    LET cols == FrameColumns(series)
        named == {Renamed(c) : c \in cols \cup {"Date"}}
    IN  IF "timestamp" \notin cols THEN Exc("KeyError")
        ELSE IF \E i \in 1..Len(HistoricColumns) : HistoricColumns[i] \notin named
        THEN Exc("KeyError")
        ELSE Val([index |-> "Date", columns |-> HistoricColumns,
                  rows |-> FrameRows(series)])

\* the rest of get_historic_esg, from "df = pd.DataFrame(series)" to the return
HistoricFrame(t) ==
    LET f == frame[t]
        r == HistoricTable(f.data)
    IN
    /\ f.pc = "hist_frame"
    /\ frame' = [frame EXCEPT ![t] =
                   IF r.ok THEN Return(Merge(f, [row |-> r.v]))
                   ELSE Raise(f, r.exc, 0)]
    /\ UNCHANGED <<cookie, crumb, session, max_retries, tuning, issued, trace, total>>

\* ------------------------------------------- get_esg_short, get_esg_full
ScoreKeys == {"totalEsg", "environmentScore", "socialScore", "governanceScore"}

\* the shapes of one score field of esgScores: the key absent, null, an object
\* without "fmt", an object with "fmt"
ScoreShapes == {"absent", "null", "nofmt", "fmt"}

\* the formatted value the upstream gives a score, one per field
FmtOf(k) ==
    CASE k = "totalEsg" -> JStr("21.5")
      [] k = "environmentScore" -> JStr("7.1")
      [] k = "socialScore" -> JStr("9.0")
      [] OTHER -> JStr("5.4")

ScoreValue(k, shape) ==
    CASE shape = "null" -> JNull
      [] shape = "nofmt" -> JObj("raw" :> JNum(21))
      [] OTHER -> JObj("fmt" :> FmtOf(k) @@ "raw" :> JNum(21))

\* the rating date of esgScores: none, a year alone, a year and a month
DateShapes == {"none", "year", "yearmonth"}

DateFields(d) ==
    CASE d = "none" -> << >>
      [] d = "year" -> "ratingYear" :> JNum(2023)
      [] OTHER -> "ratingYear" :> JNum(2023) @@ "ratingMonth" :> JNum(5)

\* an esgScores object with the given shape of each score field
EsgScoresOf(shape, d) ==
    JObj([k \in {k \in ScoreKeys : shape[k] # "absent"} |-> ScoreValue(k, shape[k])]
         @@ DateFields(d))

\* {"quoteSummary": {"result": [{"esgScores": scores}]}}
QuoteOf(scores) ==
    JObj("quoteSummary" :> JObj("result" :> JList(<<JObj("esgScores" :> scores)>>)))

\* the quoteSummary documents the upstream may answer with
QuoteDocs ==
    { QuoteOf(EsgScoresOf(shape, d)) : shape \in [ScoreKeys -> ScoreShapes],
                                       d \in DateShapes }
    \cup { JEmptyObj,
           JObj("quoteSummary" :> JObj("result" :> JNull)),
           JObj("quoteSummary" :> JObj("result" :> JList(<< >>))),
           JObj("quoteSummary" :> JObj("result" :> JList(<<JEmptyObj>>))),
           QuoteOf(JNull) }

\* the public operation is entered and the _request of
\* _fetch_quote_summary_esg has returned the response whose text parses to the
\* document ("data = json.loads(r.text)")
CallEsg(t) ==
    /\ frame[t].pc = "idle"
    /\ \E o \in {"get_esg_short", "get_esg_full"}, doc \in QuoteDocs :
          frame' = [frame EXCEPT ![t] =
                      Merge(IdleFrame, [pc |-> "esg_fetch", op |-> o, need_crumb |-> TRUE,
                                        resp |-> Resp(200, BodyEmpty), js |-> doc])]
    /\ UNCHANGED <<cookie, crumb, session, max_retries, tuning, issued, trace, total>>

\* data["quoteSummary"]["result"][0]["esgScores"]
EsgScores(js) ==
    Then(Then(Then(Item(js, "quoteSummary"), LAMBDA a : Item(a, "result")),
              LAMBDA b : At(b, 0)),
         LAMBDA c : Item(c, "esgScores"))

\* "try: return data[...]... except Exception: raise RuntimeError(...)"
FetchQuoteSummaryEsg(t) ==
    LET f == frame[t]
        r == EsgScores(f.js)
    IN
    /\ f.pc = "esg_fetch"
    /\ frame' = [frame EXCEPT ![t] =
                   IF r.ok
                   THEN Merge(f, [data |-> r.v,
                                  pc |-> IF f.op = "get_esg_short" THEN "short_row"
                                         ELSE "full_row"])
                   ELSE Raise(f, "RuntimeError", 0)]
    /\ UNCHANGED <<cookie, crumb, session, max_retries, tuning, issued, trace, total>>

Placeholder == JStr("-")

\* calendar.month_abbr
MonthAbbr ==
    <<"Jan", "Feb", "Mar", "Apr", "May", "Jun",
      "Jul", "Aug", "Sep", "Oct", "Nov", "Dec">>

\* calendar.month_abbr[m]
MonthOf(m) ==
    IF m.t # "num" THEN Exc("TypeError")
    ELSE IF m.n \in 1..Len(MonthAbbr) THEN Val(MonthAbbr[m.n])
    ELSE IF m.n = 0 THEN Val("")
    ELSE Exc("IndexError")

\* the "Last Rated" column: "-" without a ratingYear, "<month> <year>", or the
\* year alone when the month lookup raises
LastRated(data) ==
    IF ~IsDict(data) THEN Exc("TypeError")
    ELSE IF ~HasKey(data, "ratingYear") THEN Val(Placeholder)
    ELSE LET m == MonthOf(IF HasKey(data, "ratingMonth")
                          THEN data.fields["ratingMonth"] ELSE JNull)
         IN  Val([month |-> IF m.ok THEN m.v ELSE "",
                  year |-> data.fields["ratingYear"], with_month |-> m.ok])

\* the column a score key is reported in
ColumnOf(k) ==
    CASE k = "totalEsg" -> "Total-Score"
      [] k = "environmentScore" -> "E-Score"
      [] k = "socialScore" -> "S-Score"
      [] OTHER -> "G-Score"

ScoreOrder == <<"totalEsg", "environmentScore", "socialScore", "governanceScore">>

\* data.get(key, {}).get("fmt", "-")
ShortScore(data, k) ==
    Then(Get(data, k, JEmptyObj), LAMBDA x : Get(x, "fmt", Placeholder))

\* get_esg_full.g: the walk along a dotted path
RECURSIVE G(_, _, _)
G(cur, path, default) ==
    IF path = << >> THEN cur
    ELSE IF ~IsDict(cur) THEN default
    ELSE IF ~HasKey(cur, Head(path)) THEN default
    ELSE G(cur.fields[Head(path)], Tail(path), default)

\* g("<key>.fmt")
FullScore(data, k) == Val(G(data, <<k, "fmt">>, Placeholder))

\* the first exception among the score lookups and the date, in the order the
\* code evaluates them; none if all succeed
FirstFailure(scores, date) ==
    LET bad == {i \in 1..Len(ScoreOrder) : ~scores[ScoreOrder[i]].ok}
    IN  IF bad # {} THEN scores[ScoreOrder[CHOOSE i \in bad : \A j \in bad : i <= j]]
        ELSE date

\* the record returned: the ticker, the four scores, the date (in
\* get_esg_full the further columns, all looked up with g, are left out)
RowOf(scores, date) ==
    [c \in {ColumnOf(k) : k \in ScoreKeys} \cup {"Ticker", "Last Rated"} |->
        CASE c = "Ticker" -> JStr("TICK")
          [] c = "Last Rated" -> date.v
          [] OTHER -> scores[CHOOSE k \in ScoreKeys : ColumnOf(k) = c].v]

\* the body of an operation after the fetch: the lookups, then the DataFrame
BuildRow(f, scores) ==
    LET date == LastRated(f.data)
        bad == FirstFailure(scores, date)
    IN  IF bad.ok THEN Return(Merge(f, [row |-> RowOf(scores, date)]))
        ELSE Raise(f, bad.exc, 0)

\* get_esg_short after the fetch
EsgShort(t) ==
    LET f == frame[t] IN
    /\ f.pc = "short_row"
    /\ frame' = [frame EXCEPT ![t] =
                   BuildRow(f, [k \in ScoreKeys |-> ShortScore(f.data, k)])]
    /\ UNCHANGED <<cookie, crumb, session, max_retries, tuning, issued, trace, total>>

\* get_esg_full after the fetch
EsgFull(t) ==
    LET f == frame[t] IN
    /\ f.pc = "full_row"
    /\ frame' = [frame EXCEPT ![t] =
                   BuildRow(f, [k \in ScoreKeys |-> FullScore(f.data, k)])]
    /\ UNCHANGED <<cookie, crumb, session, max_retries, tuning, issued, trace, total>>

\* the public operations on the responses their fetch returned
PublicNext ==
    \E t \in Callers :
        \/ CallHistoric(t)
        \/ HistoricSeries(t)
        \/ HistoricFrame(t)
        \/ CallEsg(t)
        \/ FetchQuoteSummaryEsg(t)
        \/ EsgShort(t)
        \/ EsgFull(t)

PublicSpec == Init /\ [][PublicNext]_vars

\* --------------------------------------------------------------- claims
Running(t) == frame[t].pc \notin {"idle", "done"}
Done(t) == frame[t].pc = "done"
IsCall(t) == frame[t].op = "request"
Sent(t) == trace[t].data
StatusesOf(t) == [i \in 1..Len(Sent(t)) |-> Sent(t)[i].st]
AuthStatus(s) == s \in {400, 401, 403}
AcquisitionFailed(t) ==
    frame[t].outcome.kind \in {"RuntimeError", "HTTPError", "SessionClosed"}

\* C1: within one _request call _reauth is invoked at most once, and only
\* right after the first attempt, whose response was an auth failure; no
\* later response of the call, whatever its status, invokes it again.
C1_ReauthAtMostOnce ==
    \A t \in Threads :
        IsCall(t) =>
            /\ trace[t].reauth.count <= 1
            /\ trace[t].reauth.count = 1 =>
                  /\ trace[t].reauth.at = 1
                  /\ AuthStatus(Sent(t)[1].st)

\* C1 witness: a finished call whose reissued request was answered 429 and
\* whose backoff retry was answered 403, after one reauth.
C1_Witness ==
    /\ IsCall("T1") /\ Done("T1")
    /\ trace["T1"].reauth.count = 1
    /\ Len(Sent("T1")) = 3
    /\ Sent("T1")[2].st = 429
    /\ Sent("T1")[3].st = 403

\* the requests to the cookie and crumb endpoints made during reauth number n
AuthDuring(t, n) == SelectSeq(trace[t].auth, LAMBDA e : e.epoch = n)

\* C2: a call whose first attempt is answered 403 and whose later requests
\* are all answered 200, with the cookie and crumb endpoints answering
\* normally, sends exactly two data requests, never sleeps, runs exactly one
\* reauth (one cookie acquisition, then one crumb acquisition) and returns
\* the 200 response.
C2_ReauthOnceThenSuccess ==
    \A t \in Threads :
        ( /\ IsCall(t)
          /\ Len(Sent(t)) >= 1
          /\ Sent(t)[1].st = 403
          /\ \A i \in 2..Len(Sent(t)) : Sent(t)[i].st = 200
          /\ ~AcquisitionFailed(t) )
        => /\ Len(Sent(t)) <= 2
           /\ trace[t].sleeps = << >>
           /\ trace[t].reauth.count <= 1
           /\ Len(AuthDuring(t, 1)) <= 2
           /\ Done(t) =>
                 /\ Len(Sent(t)) = 2
                 /\ trace[t].reauth.count = 1
                 /\ trace[t].reauth.state = "returned"
                 /\ [i \in 1..2 |-> AuthDuring(t, 1)[i].ep] = <<"cookie", "crumb">>
                 /\ \A i \in 1..2 : AuthDuring(t, 1)[i].ok
                 /\ frame[t].outcome = [kind |-> "returned", status |-> 200]

\* C2 witness: a call that ended after the statuses 403, 200 on a client that
\* had both credentials cached when the call started.
C2_Witness ==
    /\ IsCall("T1") /\ Done("T1")
    /\ StatusesOf("T1") = <<403, 200>>
    /\ frame["T1"].outcome.kind = "returned"
    /\ trace["T1"].pre_crumb # NoCrumb

\* C3: a call answered 429 throughout ends only after max_retries + 1
\* requests and exactly max_retries sleeps, with HttpError; a call answered
\* 429 k times and then 200 returns that 200 after exactly k sleeps (k up to
\* max_retries, so after exactly max_retries sleeps when k = max_retries).
C3_BackoffBudget ==
    \A t \in Threads :
        LET st == StatusesOf(t)
            n == Len(st)
        IN  IsCall(t) /\ n >= 1 /\ (\A i \in 1..(n - 1) : st[i] = 429) =>
               /\ st[n] = 429 =>
                     /\ n <= max_retries + 1
                     /\ Len(trace[t].sleeps) <= max_retries
                     /\ Done(t) =>
                           /\ n = max_retries + 1
                           /\ Len(trace[t].sleeps) = max_retries
                           /\ frame[t].outcome = [kind |-> "HttpError", status |-> 429]
               /\ st[n] = 200 =>
                     /\ n <= max_retries + 1
                     /\ Len(trace[t].sleeps) = n - 1
                     /\ Done(t) =>
                           frame[t].outcome = [kind |-> "returned", status |-> 200]

\* C3 witness: with max_retries at the bound, a call that returned after 429
\* max_retries times and then 200.
C3_Witness ==
    /\ IsCall("T1") /\ Done("T1")
    /\ max_retries = MaxRetriesBound
    /\ Len(Sent("T1")) = max_retries + 1
    /\ \A i \in 1..max_retries : Sent("T1")[i].st = 429
    /\ Sent("T1")[max_retries + 1].st = 200
    /\ Len(trace["T1"].sleeps) = max_retries
    /\ frame["T1"].outcome.kind = "returned"

\* a value issued by the upstream after _reauth started
FreshSince(t, x) == x > trace[t].reauth.mark

\* C4: once a _reauth has finished, by returning or by raising, the cached
\* cookie and the cached crumb are each absent or issued during that reauth,
\* never a value cached before it; after a normal return both are present.
C4_ReauthClearsBoth ==
    \A t \in Threads :
        trace[t].reauth.state \in {"returned", "raised"} =>
            /\ cookie = 0 \/ FreshSince(t, cookie)
            /\ crumb.n = 0 \/ FreshSince(t, crumb.n)
            /\ trace[t].reauth.state = "returned" =>
                  /\ FreshSince(t, cookie)
                  /\ FreshSince(t, crumb.n)

\* C4 witness: a reauth that returned on a client that had a cookie and a
\* crumb cached before it.
C4_Witness ==
    /\ trace["T1"].reauth.state = "returned"
    /\ trace["T1"].pre_cookie # 0
    /\ trace["T1"].pre_crumb # NoCrumb
    /\ cookie # 0 /\ crumb # NoCrumb

\* C5: a cached crumb comes with a cached cookie, the one it was issued to;
\* every getcrumb request is sent while a cookie is cached and carries that
\* cookie; between two reauths no cookie request follows a crumb request.
C5_CookieBeforeCrumb ==
    /\ Truthy(crumb.n) => Truthy(cookie) /\ crumb.ck = cookie
    /\ \A t \in Threads :
          LET a == trace[t].auth IN
          /\ \A i \in 1..Len(a) :
                a[i].ep = "crumb" => Truthy(a[i].cached) /\ a[i].hdr = a[i].cached
          /\ \A i \in 1..Len(a) : \A j \in (i + 1)..Len(a) :
                a[i].ep = "crumb" /\ a[i].epoch = a[j].epoch => a[j].ep # "cookie"

\* C5 witness: an operation that acquired a cookie and then, with it, a crumb.
C5_Witness ==
    /\ Len(trace["T1"].auth) = 2
    /\ trace["T1"].auth[1].ep = "cookie" /\ trace["T1"].auth[1].ok
    /\ trace["T1"].auth[2].ep = "crumb" /\ trace["T1"].auth[2].ok
    /\ Truthy(crumb.n)

\* a call made as the public operations make it: default headers, need_crumb
\* or not, no "crumb" among the caller's parameters
DefaultCall(t) ==
    IsCall(t) /\ frame[t].hdr_arg = "default" /\ ~frame[t].params.has

\* C6: every data request of such a call carries a cached cookie and, when a
\* crumb is needed, a crumb issued to that very cookie; the requests sent after
\* the call's reauth (the reissue and every backoff retry) carry a cookie and a
\* crumb issued during that reauth.
C6_SameAuthCycle ==
    \A t \in Threads :
        DefaultCall(t) =>
            \A i \in 1..Len(Sent(t)) :
                LET d == Sent(t)[i]
                    after == trace[t].reauth.count >= 1 /\ i > trace[t].reauth.at
                IN  /\ Truthy(d.ck)
                    /\ after => FreshSince(t, d.ck)
                    /\ d.cr.has = frame[t].need_crumb
                    /\ frame[t].need_crumb =>
                          /\ Truthy(d.cr.val.n)
                          /\ d.cr.val.ck = d.ck
                          /\ after => FreshSince(t, d.cr.val.n)

\* C6 witness: a finished need_crumb call that started with both credentials
\* cached, reauthed, and sent the reissue and at least one backoff retry.
C6_Witness ==
    /\ DefaultCall("T1") /\ Done("T1") /\ frame["T1"].need_crumb
    /\ trace["T1"].pre_cookie # 0 /\ trace["T1"].pre_crumb # NoCrumb
    /\ trace["T1"].reauth.count = 1
    /\ Len(Sent("T1")) >= 3

\* a call that got as far as its raise_for_status
Settled(t) == IsCall(t) /\ Done(t) /\ ~AcquisitionFailed(t)
LastStatus(t) == Sent(t)[Len(Sent(t))].st

\* C7 as stated: the last response decides, a non-2xx final status fails with
\* HttpError carrying it and a 2xx one is returned.
C7_Original ==
    \A t \in Threads :
        Settled(t) =>
            frame[t].outcome =
                [kind |-> IF 200 <= LastStatus(t) /\ LastStatus(t) < 300
                          THEN "returned" ELSE "HttpError",
                 status |-> LastStatus(t)]

\* C7 amended: the last response decides; a final status of 400 or above
\* fails with HttpError carrying it, any status below 400 (2xx, and 3xx too)
\* is returned; a 429 or 5xx is raised only once max_retries sleeps were made.
C7_FinalResponseDecides ==
    \A t \in Threads :
        Settled(t) =>
            /\ frame[t].outcome =
                  [kind |-> IF LastStatus(t) < 400 THEN "returned" ELSE "HttpError",
                   status |-> LastStatus(t)]
            /\ LastStatus(t) = 429 \/ LastStatus(t) >= 500 =>
                  Len(trace[t].sleeps) = max_retries

\* C7 witness: a call that returned a 304 received on a backoff retry.
C7_Witness ==
    /\ Settled("T1")
    /\ Len(trace["T1"].sleeps) >= 1
    /\ LastStatus("T1") = 304
    /\ frame["T1"].outcome.kind = "returned"

\* what a call may have spent: one auth retry and max_retries backoff retries,
\* each request after the first paid for by one of them
WithinBudget(t) ==
    /\ trace[t].reauth.count <= 1
    /\ Len(trace[t].sleeps) <= max_retries
    /\ Len(Sent(t)) <= 1 + trace[t].reauth.count + Len(trace[t].sleeps)
    /\ Len(Sent(t)) <= 1 + 1 + max_retries
    /\ Done(t) /\ frame[t].outcome.kind = "HttpError"
       /\ (LastStatus(t) = 429 \/ LastStatus(t) >= 500)
          => Len(trace[t].sleeps) = max_retries

\* C8: every call stays within 1 + 1 + max_retries data requests, max_retries
\* sleeps and one reauth, a reauth taking nothing from the backoff budget, and
\* every started call ends, returning or raising.
C8_TerminatesWithinBudget ==
    /\ [](\A t \in Threads : IsCall(t) => WithinBudget(t))
    /\ \A t \in Callers :
          (IsCall(t) /\ Running(t))
              ~> (Done(t) /\ frame[t].outcome.kind # "none")

\* C8 witness: a finished call that reauthed and then used the whole backoff
\* budget: 1 + 1 + max_retries requests, max_retries sleeps.
C8_Witness ==
    /\ IsCall("T1") /\ Done("T1")
    /\ max_retries = MaxRetriesBound
    /\ trace["T1"].reauth.count = 1
    /\ Len(trace["T1"].sleeps) = max_retries
    /\ Len(Sent("T1")) = 1 + 1 + max_retries

\* the largest delay allowed, cap * (1 + jitter_frac), in the unit of delay
DelayCeiling ==
    tuning.backoff_cap * 100 * JitterSteps
    + tuning.backoff_cap * tuning.jitter_frac * JitterSteps

\* C9: every delay slept lies between 0 and cap * (1 + jitter_frac); the
\* pre-jitter delays of a call's sleeps never exceed the cap and never
\* decrease; the k-th sleep of a call is computed from attempt index k - 1.
C9_BackoffDelay ==
    \A t \in Threads :
        LET sl == trace[t].sleeps IN
        /\ 0 <= frame[t].delay /\ frame[t].delay <= DelayCeiling
        /\ \A k \in 1..Len(sl) :
              /\ sl[k].attempt = k - 1
              /\ 0 <= sl[k].base /\ sl[k].base <= tuning.backoff_cap
        /\ \A k \in 1..(Len(sl) - 1) : sl[k].base <= sl[k + 1].base

\* C9 witness: a second sleep whose pre-jitter delay is the cap and whose
\* jitter draw is the largest, so that the delay is the ceiling itself.
C9_Witness ==
    /\ frame["T1"].pc = "rq_retry"
    /\ Len(trace["T1"].sleeps) = 2
    /\ trace["T1"].sleeps[2].base = tuning.backoff_cap
    /\ trace["T1"].sleeps[1].base < tuning.backoff_cap
    /\ frame["T1"].delay = DelayCeiling

\* C10 as stated: after the first call of a history of calls without auth or
\* acquisition failure, each endpoint has been requested exactly once.
C10_Original ==
    total.clean /\ total.calls >= 1 =>
        total.cookie_reqs = 1 /\ total.crumb_reqs = 1

\* C10 amended: a new client has made no request and caches nothing;
\* _ensure_cookie and _ensure_crumb with a cached value request nothing and
\* return it unchanged; over calls without auth or acquisition failure each
\* endpoint is requested at most once: the crumb endpoint exactly once as
\* soon as a need_crumb call has completed (and never by a call without
\* need_crumb), the cookie endpoint exactly once as soon as a call with
\* default headers or need_crumb has completed.
C10_LazyAndCached ==
    /\ total.ops = 0 =>
          cookie = 0 /\ crumb = NoCrumb
          /\ total.cookie_reqs = 0 /\ total.crumb_reqs = 0
    /\ \A t \in Threads :
          /\ frame[t].op = "ensure_cookie" /\ Truthy(trace[t].pre_cookie) =>
                /\ trace[t].auth = << >>
                /\ cookie = trace[t].pre_cookie
                /\ Done(t) => frame[t].ret = trace[t].pre_cookie
          /\ frame[t].op = "ensure_crumb" /\ Truthy(trace[t].pre_crumb.n) =>
                /\ trace[t].auth = << >>
                /\ crumb = trace[t].pre_crumb
                /\ Done(t) => frame[t].ret_crumb = trace[t].pre_crumb
          /\ total.clean /\ IsCall(t) /\ ~frame[t].need_crumb =>
                \A i \in 1..Len(trace[t].auth) : trace[t].auth[i].ep # "crumb"
    /\ total.clean =>
          /\ total.cookie_reqs <= 1 /\ total.crumb_reqs <= 1
          /\ total.crumb_calls >= 1 => total.cookie_reqs = 1 /\ total.crumb_reqs = 1
          /\ total.cookie_calls >= 1 => total.cookie_reqs = 1

\* C10 witness: two completed need_crumb calls without auth or acquisition
\* failure, one request to each endpoint in all.
C10_Witness ==
    /\ total.clean
    /\ total.calls = 2 /\ total.crumb_calls = 2
    /\ total.cookie_reqs = 1 /\ total.crumb_reqs = 1

\* the response lacks a history series: no "esgChart", no or an empty "result"
\* list, no "symbolSeries", or a "symbolSeries" that is null or an empty list
LacksSeries(js) ==
    LET r == SymbolSeries(js)
    IN  ~r.ok \/ r.v = JNull \/ r.v = JList(<< >>)

\* C11 as stated: get_historic_esg on a fetched response that lacks a history
\* series ends with the RuntimeError of its lookup (the DataError), never with
\* another exception and never with a returned table.
C11_Original ==
    \A t \in Threads :
        frame[t].op = "get_historic_esg" /\ Done(t) /\ LacksSeries(frame[t].js) =>
            frame[t].outcome.kind = "RuntimeError"

\* the formatted value of a score field when the upstream gives one, else "-"
ExpectedScore(data, k) ==
    IF HasKey(data, k) /\ G(data, <<k, "fmt">>, Placeholder) # Placeholder
    THEN data.fields[k].fields["fmt"]
    ELSE Placeholder

\* C12 as stated: on every esgScores object get_esg_short and get_esg_full
\* return a record whose four score columns hold the upstream's formatted
\* value where there is one and "-" elsewhere (so the two agree).
C12_Original ==
    \A t \in Threads :
        LET f == frame[t] IN
        f.op \in {"get_esg_short", "get_esg_full"} /\ Done(t)
        /\ EsgScores(f.js).ok /\ IsDict(f.data) =>
            /\ f.outcome.kind = "returned"
            /\ \A k \in ScoreKeys : f.row[ColumnOf(k)] = ExpectedScore(f.data, k)

\* a call with need_crumb whose caller passed a "crumb" parameter of its own
CallerCrumbCall(t) == IsCall(t) /\ frame[t].need_crumb /\ frame[t].params.has

\* C13 as stated: every data request of such a call (the first attempt, the
\* reissue after the reauth, every backoff retry) carries the caller's crumb.
C13_Original ==
    \A t \in Threads :
        CallerCrumbCall(t) =>
            \A i \in 1..Len(Sent(t)) :
                Sent(t)[i].cr = [has |-> TRUE, val |-> CallerCrumb]

\* C14 as stated: once a call is in its backoff loop no request goes to the
\* cookie or crumb endpoint, the cached cookie, the cached crumb and the
\* session stay as they were, and every retry carries the Cookie header and
\* the crumb parameter of the request that preceded the loop.
C14_Original ==
    \A t \in Threads :
        IsCall(t) /\ trace[t].sleeps # << >> =>
            LET first == trace[t].sleeps[1] IN
            /\ Len(trace[t].auth) = first.auth
            /\ <<cookie, crumb, session>> = first.held
            /\ \A i \in (first.sent + 1)..Len(Sent(t)) :
                  /\ Sent(t)[i].ck = Sent(t)[first.sent].ck
                  /\ Sent(t)[i].cr = Sent(t)[first.sent].cr

\* C15 as stated: _reauth replaces the session exactly when reset_session is
\* true; with reset_session false the session stays the same open object and
\* the reauth does not fail for want of a usable session.
C15_Original ==
    \A t \in Threads :
        frame[t].op = "reauth" /\ trace[t].reauth.count >= 1 =>
            /\ FreshSince(t, session.id) <=> frame[t].reset_session
            /\ ~frame[t].reset_session =>
                  /\ ~session.closed
                  /\ frame[t].outcome.kind # "SessionClosed"

\* the bodies whose lower-cased text contains "crumb" and "invalid", or
\* "unauthoriz"
MarkedBodies == {BodyInvalidCrumb, BodyUnauthorized}
Bodies == {BodyEmpty, BodyBadRequest} \cup MarkedBodies

\* the auth failures as the claim lists them
ListedAuthFailure(r) ==
    \/ r.status_code \in {401, 403}
    \/ r.status_code = 400 /\ r.text \in MarkedBodies

\* C16: the auth check takes a response for an auth failure exactly when its
\* status is 401 or 403, whatever the body, or 400 with a marked body; the
\* first response of a call leads to _reauth exactly in that case (so not for
\* an unmarked 400 nor for a marked body under another status); a call whose
\* first response is an unmarked 400 sends that one request, never sleeps and
\* ends with HttpError 400.
C16_AuthClassification ==
    /\ [](\A s \in Statuses, b \in Bodies :
             AuthFailure(Resp(s, b)) <=> ListedAuthFailure(Resp(s, b)))
    /\ [][\A t \in Threads :
             frame[t].pc = "rq_classify" =>
                 (frame'[t].pc = "ra" <=> ListedAuthFailure(frame[t].resp))]_vars
    /\ [](\A t \in Threads :
             /\ IsCall(t) /\ trace[t].reauth.count >= 1 =>
                   Sent(t)[1].st \in {400, 401, 403}
             /\ ( /\ IsCall(t) /\ trace[t].reauth.count = 0
                  /\ Len(Sent(t)) >= 1 /\ Sent(t)[1].st = 400
                  /\ frame[t].pc \notin {"rq_classify", "ra"} )
                => /\ Len(Sent(t)) = 1
                   /\ trace[t].sleeps = << >>
                   /\ frame[t].pc \in {"rq_loop0", "done"}
                   /\ Done(t) =>
                         frame[t].outcome = [kind |-> "HttpError", status |-> 400])

\* C16 witness: a call that ended on its first response, a 400 whose body has
\* no marker: one request, no reauth, no sleep, HttpError 400.
C16_Witness ==
    /\ IsCall("T1") /\ Done("T1")
    /\ Len(Sent("T1")) = 1
    /\ frame["T1"].resp = Resp(400, BodyBadRequest)
    /\ trace["T1"].reauth.count = 0
    /\ trace["T1"].sleeps = << >>
    /\ frame["T1"].outcome = [kind |-> "HttpError", status |-> 400]

\* the operation's last request to the cookie or crumb endpoint failed
AcquisitionFailure(t) ==
    /\ trace[t].auth # << >>
    /\ ~trace[t].auth[Len(trace[t].auth)].ok

\* C17 as stated: a cookie response without A1, a getcrumb response with a
\* failure status or with an empty body ends the enclosing operation at once
\* with the RuntimeError of the credential helpers (the AuthError), and no
\* crumb is cached afterwards.
C17_Original ==
    \A t \in Threads :
        AcquisitionFailure(t) =>
            /\ Done(t)
            /\ frame[t].outcome.kind = "RuntimeError"
            /\ ~Truthy(crumb.n)

\* a data request whose Cookie header and crumb parameter are both present
\* and belong together: the crumb was issued to that very cookie
Consistent(d) ==
    /\ Truthy(d.ck)
    /\ d.cr.has /\ Truthy(d.cr.val.n)
    /\ d.cr.val.ck = d.ck

\* a data request with a cookie and a crumb that was issued to another cookie
Mixed(d) == Truthy(d.ck) /\ d.cr.has /\ Truthy(d.cr.val.n) /\ d.cr.val.ck # d.ck

\* a data request whose crumb parameter is the cleared value
CrumbAbsent(d) == d.cr.has /\ ~Truthy(d.cr.val.n)

\* C18: on a client shared by two threads, as long as no operation has begun
\* while another was running (the calls are serialized) every data request of
\* every call carries a cookie and the crumb issued to it; the witness is the
\* state the claim says is reachable once calls do interleave.
C18_SerializedConsistent ==
    \A t \in Threads :
        IsCall(t) /\ ~total.overlap =>
            \A i \in 1..Len(Sent(t)) : Consistent(Sent(t)[i])

\* C18 witness: the two calls overlapped, T2 went through a _reauth, and T1
\* has sent a data request whose crumb was issued to another cookie than the
\* one in its Cookie header.
C18_Witness ==
    /\ total.overlap
    /\ IsCall("T1") /\ IsCall("T2")
    /\ trace["T2"].reauth.count = 1
    /\ trace["T1"].reauth.count = 0
    /\ \E i \in 1..Len(Sent("T1")) : Mixed(Sent("T1")[i])

====
